---- MODULE Spec2Model ----
(***************************************************************************)
(* The time-series block bootstrap of pycorr (src/pycorr/stats/boot.py):   *)
(* circ, bootstrap_ts_indexes, b_star, ts_boot, run_boot_within_isc_diff.  *)
(* Arrays are sequences (1-based here, 0-based in the source); an index    *)
(* value stored in an array keeps its Python value, negative ones too.     *)
(***************************************************************************)
EXTENDS Integers, Sequences, FiniteSets, TLC

\* ------------------------------------------------------------- bounds
MaxN == 3         \* longest series handed to bootstrap_ts_indexes directly
MaxL == 4         \* largest block length l (exceeds the series length)
MaxDirect == 1    \* most rows asked of bootstrap_ts_indexes directly
MaxT == 2         \* longest time axis of a bundle handed to ts_boot
MaxSamples == 2   \* largest n_samples handed to ts_boot
MaxRows == 2      \* most rows of a stored index matrix
MaxDraws == 4     \* most start offsets one ts_boot call draws
MaxK == 2         \* most series (columns) handed to b_star
MaxLags == 4      \* most lags acf returns beyond lag 0
MaxKn == 3        \* largest window length Kn
MaxMmax == 5      \* largest lag bound mmax
MaxBmax == 2      \* largest block-length cap Bmax
MaxReps == 2      \* largest n_reps handed to run_boot_within_isc_diff
MaxLoc == 2       \* most spatial locations of a group's statistic

\* ------------------------------------------------------------- values
NoneVal == -1     \* None, in a slot of the list ts_boot allocates
ZeroVal == 0      \* the fill of a buffer the caller allocates (np.zeros)

Min(a, b) == IF a < b THEN a ELSE b

RECURSIVE SumSeq(_)
SumSeq(s) == IF s = <<>> THEN 0 ELSE s[1] + SumSeq(Tail(s))

\* ------------------------------------------------- the caller's inputs
\* Two series over a time axis of n points, told apart by their values.
SeriesX(n) == [t \in 1..n |-> t]
SeriesY(n) == [t \in 1..n |-> 2 * t + 3]

\* A bundle with two identical members and a third, different one.
GoodBundle(n) == <<SeriesX(n), SeriesX(n), SeriesY(n)>>
\* A bundle whose members disagree on the length of the time axis.
BadBundle(n) == <<SeriesX(n), SeriesY(n + 1)>>

\* Rows a stored index matrix may hold for a series of n points: the
\* identity, the reversal written with negative indices, and a row with an
\* index that is out of bounds for the series.
IdentityRow(n) == [p \in 1..n |-> p - 1]
ReversedRow(n) == [p \in 1..n |-> -p]
OutOfBoundsRow(n) == [p \in 1..n |-> n]
StoredRows(n) == {IdentityRow(n), ReversedRow(n), OutOfBoundsRow(n)}
StoredMatrices(n) == UNION {[1..R -> StoredRows(n)] : R \in 0..MaxRows}

Methods == {"circular", "stationary"}

\* The statistic is the caller's: an order-sensitive checksum of the gathered
\* tuple stands for it, always positive, so that it differs from None and
\* from the fill of a fresh buffer.
func(sample) ==
    1 + SumSeq([m \in DOMAIN sample |->
                  m * SumSeq([p \in DOMAIN sample[m] |-> p * sample[m][p]])])

\* ------------------------------------------------- bootstrap_ts_indexes
\* circ with the shift left out: the starts stay as drawn.
circ_unshifted(start, l, maxlen) == start

\* circ with the edge test off by one: maxlen - start <= l.
circ_inclusive(start, l, maxlen) ==
    [r \in DOMAIN start |->
        [c \in DOMAIN start[r] |->
            IF maxlen - start[r][c] <= l THEN start[r][c] - maxlen
                                         ELSE start[r][c]]]

\* circ: every start with maxlen - start < l is moved down by maxlen.
circ(start, l, maxlen) ==
    [r \in DOMAIN start |->
        [c \in DOMAIN start[r] |->
            IF maxlen - start[r][c] < l THEN start[r][c] - maxlen
                                        ELSE start[r][c]]]

\* N = int(np.ceil(npoints / float(l)))
NumBlocks(npoints, l) == (npoints + l - 1) \div l

\* randint(npoints, size=(n_samples, N)): every matrix it can return.
randint(npoints, n_samples, N) ==
    [1..n_samples -> [1..N -> 0..(npoints - 1)]]

\* flatten in C order: the last index varies fastest.
flatten_C(M, rows, cols) ==
    [k \in 1..(rows * cols) |-> M[((k - 1) \div cols) + 1][((k - 1) % cols) + 1]]

\* ndarray.flatten(order='F') of a rows x cols matrix: the first index
\* varies fastest.
flatten_F(M, rows, cols) ==
    [k \in 1..(rows * cols) |-> M[((k - 1) % rows) + 1][((k - 1) \div rows) + 1]]

\* expand_block: np.array([block + ii for ii in xrange(l)]).flatten(order='F')
expand_block(block, l) ==
    flatten_F([i \in 1..l |-> [c \in DOMAIN block |-> block[c] + (i - 1)]],
              l, Len(block))

\* indexes[..., :npoints]
Truncate(row, npoints) == SubSeq(row, 1, Min(npoints, Len(row)))

\* The matrix bootstrap_ts_indexes returns for the drawn starts.
bootstrap_ts_indexes(drawn, npoints, l) ==
    LET shifted == circ(drawn, l, npoints)
    IN  [r \in DOMAIN shifted |-> Truncate(expand_block(shifted[r], l), npoints)]

\* ------------------------------------------------------------- ts_boot
\* Indexing that counts a negative index from the front.
Item_from_front(data, e) == IF e >= 0 THEN data[e + 1] ELSE data[-e]

\* data[..., e] for one index e: a negative index counts from the end.
InBounds(data, e) == -Len(data) <= e /\ e < Len(data)
Item(data, e) == IF e >= 0 THEN data[e + 1] ELSE data[Len(data) + e + 1]

\* sample = [data[..., boot_indx] for data in dlist]: a fresh copy per member.
CanGather(bundle, boot_indx) ==
    \A m \in DOMAIN bundle : \A p \in DOMAIN boot_indx : InBounds(bundle[m], boot_indx[p])
Gather(bundle, boot_indx) ==
    [m \in DOMAIN bundle |-> [p \in DOMAIN boot_indx |-> Item(bundle[m], boot_indx[p])]]

\* out[ii:] = value: the slot and every one after it.
StoreResult_fill(buf, i, value) ==
    [j \in DOMAIN buf |-> IF j >= i + 1 THEN value ELSE buf[j]]

\* out[ii] = value, ii counted from 0
StoreResult(buf, i, value) == [buf EXCEPT ![i + 1] = value]

\* len(np.unique([data.shape[-1] for data in dlist])) == 1
SameTimepoints(bundle) == Cardinality({Len(bundle[m]) : m \in DOMAIN bundle}) = 1

\* [None] * n_samples
NoneList(n) == [i \in 1..n |-> NoneVal]
\* np.zeros(shape)
Zeros(n) == [i \in 1..n |-> ZeroVal]

\* -------------------------------------------------------------- b_star
\* Real values are kept in halves: the integer v stands for v / 2.  NaN is
\* the floating-point not-a-number, a value apart from every number the
\* model computes: every comparison with it is false.
Half == 2
NaN == -999
Gt(a, b) == a # NaN /\ b # NaN /\ a > b
Lt(a, b) == a # NaN /\ b # NaN /\ a < b

\* How |rho_k| stands to rho_k_crit at one lag: "below" (insignificant),
\* "above", or "neither" (equal to it, or rho_k is NaN).
LagClasses == {"below", "neither", "above"}
\* acf(data[:,ii])[1:] compared with rho_k_crit, for every length of rho_k.
LagPatterns == UNION {[1..n -> LagClasses] : n \in 1..MaxLags}

\* insig = np.abs(rho_k) < rho_k_crit
insig(rho) == [j \in DOMAIN rho |-> rho[j] = "below"]
\* np.abs(rho_k) > rho_k_crit
exceeds(rho) == [j \in DOMAIN rho |-> rho[j] = "above"]

\* np.sum(insig[jj:jj + Kn]), jj counted from 0: the slice stops at the end
\* of the array.
SliceCount(flags, jj, kn) ==
    Cardinality({j \in DOMAIN flags : jj + 1 <= j /\ j <= jj + kn /\ flags[j]})
\* num_insig = [... for jj in range(int(mmax-Kn+1))]
num_insig(rho, kn, mx) ==
    [w \in 1..(IF mx - kn + 1 > 0 THEN mx - kn + 1 ELSE 0) |->
        SliceCount(insig(rho), w - 1, kn)]

\* np.where(flags)[0]: the 0-based positions that hold True, ascending.
RECURSIVE where(_, _)
where(flags, from) ==
    IF from > Len(flags) THEN <<>>
    ELSE IF flags[from] THEN <<from - 1>> \o where(flags, from + 1)
    ELSE where(flags, from + 1)

\* A Python value that is a number or an ndarray of numbers.
Scalar(v) == [array |-> FALSE, val |-> <<v>>]
Array(s) == [array |-> TRUE, val |-> s]
Unset == [array |-> FALSE, val |-> <<>>]

\* Lines 50-56.  The builtin max of the tuple np.where returns is that
\* tuple's one member, the whole array of positions; + 1 adds 1 to each.
mhat_of(rho, kn, mx) ==
    LET ni == num_insig(rho, kn, mx)
        full == where([w \in DOMAIN ni |-> ni[w] = kn], 1)
        over == where(exceeds(rho), 1)
    IN  IF full # <<>> THEN Scalar(full[1] + 1)
        ELSE IF over # <<>> THEN Array([j \in DOMAIN over |-> over[j] + 1])
        ELSE Scalar(1)

\* Line 58, M = min(2*mhat, mmax): the builtin min keeps its first argument
\* unless bool(mmax < 2*mhat) is true, and bool() of an array with more than
\* one element raises ValueError.
MinRaises(mh) == mh.array /\ Len(mh.val) > 1
M_of(mh, mx) ==
    IF mx < 2 * mh.val[1] THEN Scalar(mx)
    ELSE [array |-> mh.array, val |-> <<2 * mh.val[1]>>]

\* Lines 59-66: the estimate (2 Ghat^2 / DCBhat)^(1/3) n^(1/3) is a real
\* number >= 0, or NaN when Ghat and DCBhat are both 0 (a constant series).
RawEstimates(bmax) == {NaN} \cup 0..(Half * bmax + 2)

\* np.round: to the nearest integer, a tie to the even one.
np_round(v) ==
    IF v = NaN THEN NaN
    ELSE IF v % Half = 0 THEN v
    ELSE IF ((v - 1) \div Half) % 2 = 0 THEN v - 1 ELSE v + 1

\* Lines 68-71 for one entry: clamped and rounded when round is set, left as
\* estimated when it is not.
Finish(v, bmax, rnd) ==
    IF rnd
    THEN np_round(IF Gt(v, Half * bmax) THEN Half * bmax
                  ELSE IF Lt(v, Half) THEN Half ELSE v)
    ELSE v

\* ---------------------------------------------- run_boot_within_isc_diff
\* A value of the group statistic at one location: a number or NaN (a
\* location whose resampled series is constant has no correlation).
StatValues == {NaN, 0, 1}
StatArrays(n) == [1..n -> StatValues]

\* a - b in floating point
Minus(a, b) == IF a = NaN \/ b = NaN THEN NaN ELSE a - b

\* out[k].transpose(swap_dims): the replicate axis goes last.
transpose(dist, nrep, nl) == [x \in 1..nl |-> [rep \in 1..nrep |-> dist[rep][x]]]

\* (distA - distB > 0).mean(axis=-1), as the fraction num / den
p_gt_of(dA, dB) ==
    [x \in DOMAIN dA |->
        [num |-> Cardinality({rep \in DOMAIN dA[x] : Gt(Minus(dA[x][rep], dB[x][rep]), 0)}),
         den |-> Len(dA[x])]]
\* (distA - distB <= 0).mean(axis=-1)
p_ltq_of(dA, dB) ==
    [x \in DOMAIN dA |->
        [num |-> Cardinality({rep \in DOMAIN dA[x] :
                    LET d == Minus(dA[x][rep], dB[x][rep]) IN d # NaN /\ d <= 0}),
         den |-> Len(dA[x])]]

VARIABLES
    pc,         \* where the running call stands
    fn,         \* the function that was called
    dlist,      \* the bundle (for a direct call: the one series)
    l,          \* block length
    n_samples,  \* replicate count asked for
    method,     \* resampling method asked for
    indx_file,  \* "" or the name of a stored index matrix
    stored,     \* what np.load(indx_file) returns
    has_out,    \* the caller passed its own out buffer
    out0,       \* that buffer's contents at the call
    out,        \* the buffer ts_boot writes (the caller's, when has_out)
    starts,     \* the start offsets as randint drew them
    indexes,    \* the index matrix
    ii,         \* loop counter of ts_boot
    sample,     \* the tuple gathered last
    ret,        \* the value returned
    exc,        \* the exception raised, "" for none
    ndraws,     \* start offsets drawn so far
    nevals,     \* evaluations of the statistic so far
    \* b_star
    ndim,       \* len(data.shape)
    k_series,   \* k, the number of series
    Kn, mmax, Bmax, round,
    rho_k,      \* the lags of the series at hand, classified
    mhat, M,    \* locals of the loop body
    BstarCB,    \* the estimates, one per series
    \* run_boot_within_isc_diff
    n_reps,     \* replicate count
    nloc,       \* number of spatial locations
    distA, distB,
    r_diff,     \* out['r'], the observed difference
    p_gt, p_ltq

bsVars == <<ndim, k_series, Kn, mmax, Bmax, round, rho_k, mhat, M, BstarCB>>
dfVars == <<n_reps, nloc, distA, distB, r_diff, p_gt, p_ltq>>
tsVars == <<dlist, l, n_samples, method, indx_file, stored, has_out, out0,
            out, starts, indexes, sample, ndraws, nevals>>

vars == <<pc, fn, ii, ret, exc, tsVars, bsVars, dfVars>>

Init ==
    /\ pc = "idle"
    /\ fn = ""
    /\ dlist = <<>>
    /\ l = 1
    /\ n_samples = 0
    /\ method = "circular"
    /\ indx_file = ""
    /\ stored = <<>>
    /\ has_out = FALSE
    /\ out0 = <<>>
    /\ out = <<>>
    /\ starts = <<>>
    /\ indexes = <<>>
    /\ ii = 0
    /\ sample = <<>>
    /\ ret = <<>>
    /\ exc = ""
    /\ ndraws = 0
    /\ nevals = 0
    /\ ndim = 0
    /\ k_series = 0
    /\ Kn = 0
    /\ mmax = 0
    /\ Bmax = 0
    /\ round = TRUE
    /\ rho_k = <<>>
    /\ mhat = Unset
    /\ M = Unset
    /\ BstarCB = <<>>
    /\ n_reps = 0
    /\ nloc = 0
    /\ distA = <<>>
    /\ distB = <<>>
    /\ r_diff = <<>>
    /\ p_gt = <<>>
    /\ p_ltq = <<>>

\* A direct call bootstrap_ts_indexes(data, l, n_samples, method), lines 16-23.
\* Any method but 'circular' leaves `indexes` unbound and the return
\* statement raises UnboundLocalError.
BtiCall ==
    /\ pc = "idle"
    /\ \E n \in 1..MaxN, bl \in 1..MaxL, ns \in 0..MaxDirect, m \in Methods :
        /\ fn' = "bootstrap_ts_indexes"
        /\ dlist' = <<SeriesX(n)>>
        /\ l' = bl
        /\ n_samples' = ns
        /\ method' = m
        /\ IF m = "circular"
           THEN \E drawn \in randint(n, ns, NumBlocks(n, bl)) :
                   /\ starts' = drawn
                   /\ indexes' = bootstrap_ts_indexes(drawn, n, bl)
                   /\ ndraws' = ns * NumBlocks(n, bl)
                   /\ pc' = "returned"
                   /\ exc' = ""
           ELSE /\ pc' = "raised"
                /\ exc' = "UnboundLocalError"
                /\ UNCHANGED <<starts, indexes, ndraws>>
    /\ UNCHANGED <<indx_file, stored, has_out, out0, out, ii, sample, ret, nevals>>
    /\ UNCHANGED <<bsVars, dfVars>>

\* ts_boot(dlist, func, l, n_samples, method, out, indx_file), lines 84-87:
\* the assertion on the time axes, then the default for out.
TsBootCall ==
    /\ pc = "idle"
    /\ \E n \in 1..MaxT, good \in BOOLEAN, bl \in 1..MaxL, ns \in 0..MaxSamples,
          m \in Methods, given \in BOOLEAN, load \in BOOLEAN :
        /\ ~load => ns * NumBlocks(n, bl) <= MaxDraws
        /\ fn' = "ts_boot"
        /\ dlist' = IF good THEN GoodBundle(n) ELSE BadBundle(n)
        /\ l' = bl
        /\ n_samples' = ns
        /\ method' = m
        /\ has_out' = given
        /\ \E len \in IF given THEN {len0 \in (ns - 1)..(ns + 1) : len0 >= 0} ELSE {ns} :
              /\ out0' = IF given THEN Zeros(len) ELSE <<>>
              /\ out' = IF given THEN Zeros(len) ELSE NoneList(ns)
        /\ \E file \in IF load THEN StoredMatrices(n) ELSE {<<>>} :
              /\ indx_file' = IF load THEN "indexes.npy" ELSE ""
              /\ stored' = file
        /\ IF SameTimepoints(dlist')
           THEN pc' = "indexes" /\ exc' = ""
           ELSE pc' = "raised" /\ exc' = "AssertionError"
    /\ UNCHANGED <<starts, indexes, ii, sample, ret, ndraws, nevals>>
    /\ UNCHANGED <<bsVars, dfVars>>

\* Lines 89-90: the index matrix is generated, with the default method
\* whatever `method` ts_boot was given, or loaded from indx_file.  The
\* series length is that of dlist[0]'s last axis (example_tc.shape[0]).
TsBootIndexes ==
    /\ pc = "indexes"
    /\ LET n == Len(dlist[1])
       IN IF indx_file = ""
          THEN \E drawn \in randint(n, n_samples, NumBlocks(n, l)) :
                  /\ starts' = drawn
                  /\ indexes' = bootstrap_ts_indexes(drawn, n, l)
                  /\ ndraws' = n_samples * NumBlocks(n, l)
          ELSE /\ indexes' = stored
               /\ UNCHANGED <<starts, ndraws>>
    /\ ii' = 0
    /\ pc' = "loop"
    /\ UNCHANGED <<fn, dlist, l, n_samples, method, indx_file, stored, has_out,
                   out0, out, sample, ret, exc, nevals>>
    /\ UNCHANGED <<bsVars, dfVars>>

\* Lines 92-94, one replicate: gather, evaluate, store.
TsBootLoop ==
    /\ pc = "loop"
    /\ ii < Len(indexes)
    /\ LET boot_indx == indexes[ii + 1]
       IN IF ~CanGather(dlist, boot_indx)
          THEN /\ pc' = "raised"
               /\ exc' = "IndexError"
               /\ UNCHANGED <<out, ii, sample, nevals>>
          ELSE /\ sample' = Gather(dlist, boot_indx)
               /\ nevals' = nevals + 1
               /\ \/ /\ pc' = "raised"          \* the statistic raises
                     /\ exc' = "StatisticError"
                     /\ UNCHANGED <<out, ii>>
                  \/ /\ ii >= Len(out)          \* out[ii] is out of range
                     /\ pc' = "raised"
                     /\ exc' = "IndexError"
                     /\ UNCHANGED <<out, ii>>
                  \/ /\ ii < Len(out)
                     /\ out' = StoreResult(out, ii, func(sample'))
                     /\ ii' = ii + 1
                     /\ UNCHANGED <<pc, exc>>
    /\ UNCHANGED <<fn, dlist, l, n_samples, method, indx_file, stored, has_out,
                   out0, starts, indexes, ret, ndraws>>
    /\ UNCHANGED <<bsVars, dfVars>>

\* Line 95: return np.array(out, copy=False)
TsBootReturn ==
    /\ pc = "loop"
    /\ ii = Len(indexes)
    /\ ret' = out
    /\ pc' = "returned"
    /\ UNCHANGED <<fn, dlist, l, n_samples, method, indx_file, stored, has_out,
                   out0, out, starts, indexes, ii, sample, exc, ndraws, nevals>>
    /\ UNCHANGED <<bsVars, dfVars>>

Next == BtiCall \/ TsBootCall \/ TsBootIndexes \/ TsBootLoop \/ TsBootReturn

Spec == Init /\ [][Next]_vars

\* b_star(data, Kn, mmax, Bmax, c, round), lines 34-42: data of more than two
\* dimensions is refused; BstarCB = np.empty(k) holds nothing yet.
BStarCall ==
    /\ pc = "idle"
    /\ \E nd \in 1..3, nk \in 1..MaxK, kn \in 1..MaxKn, mx \in 1..MaxMmax,
          bm \in 1..MaxBmax, rnd \in BOOLEAN :
        /\ fn' = "b_star"
        /\ ndim' = nd
        /\ k_series' = IF nd = 1 THEN 1 ELSE nk
        /\ Kn' = kn
        /\ mmax' = mx
        /\ Bmax' = bm
        /\ round' = rnd
        /\ IF nd > 2
           THEN pc' = "raised" /\ exc' = "Exception"
           ELSE pc' = "acf" /\ exc' = ""
    /\ ii' = 0
    /\ BstarCB' = <<>>
    /\ UNCHANGED <<ret, rho_k, mhat, M, tsVars, dfVars>>

\* Lines 44-56 for series ii: its autocorrelations against rho_k_crit, then mhat.
BStarMhat ==
    /\ pc = "acf"
    /\ ii < k_series
    /\ \E rho \in LagPatterns :
        /\ rho_k' = rho
        /\ mhat' = mhat_of(rho, Kn, mmax)
    /\ pc' = "M"
    /\ UNCHANGED <<fn, ii, ret, exc, ndim, k_series, Kn, mmax, Bmax, round, M, BstarCB,
                   tsVars, dfVars>>

\* Line 58.
BStarM ==
    /\ pc = "M"
    /\ IF MinRaises(mhat)
       THEN pc' = "raised" /\ exc' = "ValueError" /\ UNCHANGED M
       ELSE pc' = "estimate" /\ M' = M_of(mhat, mmax) /\ UNCHANGED exc
    /\ UNCHANGED <<fn, ii, ret, ndim, k_series, Kn, mmax, Bmax, round, rho_k, mhat,
                   BstarCB, tsVars, dfVars>>

\* Lines 59-66: the estimate of series ii is stored; the locals of the loop
\* body are dead from here on.
BStarEstimate ==
    /\ pc = "estimate"
    /\ \E raw \in RawEstimates(Bmax) : BstarCB' = Append(BstarCB, raw)
    /\ ii' = ii + 1
    /\ rho_k' = <<>>
    /\ mhat' = Unset
    /\ M' = Unset
    /\ pc' = "acf"
    /\ UNCHANGED <<fn, ret, exc, ndim, k_series, Kn, mmax, Bmax, round, tsVars, dfVars>>

\* Lines 68-73.
BStarReturn ==
    /\ pc = "acf"
    /\ ii = k_series
    /\ ret' = [j \in DOMAIN BstarCB |-> Finish(BstarCB[j], Bmax, round)]
    /\ pc' = "returned"
    /\ UNCHANGED <<fn, ii, exc, bsVars, tsVars, dfVars>>

NextBStar == BStarCall \/ BStarMhat \/ BStarM \/ BStarEstimate \/ BStarReturn

SpecBStar == Init /\ [][NextBStar]_vars

\* run_boot_within_isc_diff(A, B, l, n_reps), lines 103-107.
DiffCall ==
    /\ pc = "idle"
    /\ \E nr \in 1..MaxReps, nl \in 1..MaxLoc :
        /\ n_reps' = nr
        /\ nloc' = nl
    /\ fn' = "run_boot_within_isc_diff"
    /\ pc' = "distA"
    /\ UNCHANGED <<ii, ret, exc, distA, distB, r_diff, p_gt, p_ltq, tsVars, bsVars>>

\* Line 110: ts_boot fills one row of n_reps x locations per replicate with
\* the group statistic of the resampled A.
DiffDistA ==
    /\ pc = "distA"
    /\ \E d \in [1..n_reps -> StatArrays(nloc)] : distA' = d
    /\ pc' = "distB"
    /\ UNCHANGED <<fn, ii, ret, exc, n_reps, nloc, distB, r_diff, p_gt, p_ltq, tsVars, bsVars>>

\* Line 111: the same for B.
DiffDistB ==
    /\ pc = "distB"
    /\ \E d \in [1..n_reps -> StatArrays(nloc)] : distB' = d
    /\ pc' = "pvalues"
    /\ UNCHANGED <<fn, ii, ret, exc, n_reps, nloc, distA, r_diff, p_gt, p_ltq, tsVars, bsVars>>

\* Lines 112-116: the replicate axis goes last, then r and the two p-values.
DiffPValues ==
    /\ pc = "pvalues"
    /\ distA' = transpose(distA, n_reps, nloc)
    /\ distB' = transpose(distB, n_reps, nloc)
    /\ \E sA \in StatArrays(nloc), sB \in StatArrays(nloc) :
          r_diff' = [x \in 1..nloc |-> Minus(sA[x], sB[x])]
    /\ p_gt' = p_gt_of(distA', distB')
    /\ p_ltq' = p_ltq_of(distA', distB')
    /\ pc' = "returned"
    /\ UNCHANGED <<fn, ii, ret, exc, n_reps, nloc, tsVars, bsVars>>

NextDiff == DiffCall \/ DiffDistA \/ DiffDistB \/ DiffPValues

SpecDiff == Init /\ [][NextDiff]_vars

\* --------------------------------------------------------- properties
npoints == Len(dlist[1])

\* An index matrix that bootstrap_ts_indexes generated is at hand.
HasGenerated ==
    \/ fn = "bootstrap_ts_indexes" /\ pc = "returned"
    \/ fn = "ts_boot" /\ indx_file = "" /\ pc \in {"loop", "returned"}

\* Gathering by residue: position p of the sample holds the series at
\* boot_indx[p] mod n.
GatherMod(bundle, boot_indx) ==
    [m \in DOMAIN bundle |->
        [p \in DOMAIN boot_indx |-> bundle[m][(boot_indx[p] % Len(bundle[m])) + 1]]]

\* C1 as stated: every entry of a generated index matrix lies in [0, n).
C1_Original ==
    HasGenerated =>
        \A r \in DOMAIN indexes : \A c \in DOMAIN indexes[r] :
            0 <= indexes[r][c] /\ indexes[r][c] < npoints

\* C1, amended: every entry of a generated index matrix lies in [-n, n); a
\* shifted block holds negative entries, which index the series from its end.
C1_EntriesWithinAliasRange ==
    HasGenerated =>
        \A r \in DOMAIN indexes : \A c \in DOMAIN indexes[r] :
            -npoints <= indexes[r][c] /\ indexes[r][c] < npoints

\* C1's case: a block longer than the series started at 0, shifted to -n.
C1_Witness ==
    /\ HasGenerated
    /\ l > npoints
    /\ \E r \in DOMAIN indexes : \E c \in DOMAIN indexes[r] : indexes[r][c] = -npoints

\* The row generated for n = 12, l = 4 when the first start drawn is 10.
ExampleRow == bootstrap_ts_indexes(<<<<10, 3, 7>>>>, 12, 4)[1]

\* C2 as stated: a row has n entries, the first n of the blocks in draw
\* order, the block drawn with start s contributing (s + i) mod n (of which
\* start 10 with n = 12, l = 4 giving 10, 11, 0, 1 is an instance).
C2_Original ==
    HasGenerated =>
        \A r \in DOMAIN indexes :
            /\ Len(indexes[r]) = npoints
            /\ \A j \in 0..(npoints - 1) :
                  indexes[r][j + 1] = (starts[r][(j \div l) + 1] + (j % l)) % npoints

\* C2, amended: there is one row per replicate, a row has exactly n entries,
\* and it is the first n entries of the blocks in draw order, where the block
\* drawn with start s contributes s + i - n when n - s < l and s + i
\* otherwise (i = 0..l-1), a value congruent to (s + i) mod n; start 10 with
\* n = 12, l = 4 opens the row with -2, -1, 0, 1.
C2_RowsAreBlocksInDrawOrder ==
    HasGenerated =>
        /\ SubSeq(ExampleRow, 1, 4) = <<-2, -1, 0, 1>>
        /\ Len(indexes) = n_samples
        /\ \A r \in DOMAIN indexes :
            /\ Len(indexes[r]) = npoints
            /\ \A j \in 0..(npoints - 1) :
                  LET s == starts[r][(j \div l) + 1]
                      i == j % l
                  IN  /\ indexes[r][j + 1] = IF npoints - s < l THEN s + i - npoints
                                                                ELSE s + i
                      /\ indexes[r][j + 1] % npoints = (s + i) % npoints

\* C2's case: n = 3, l = 2, starts 2 and 1: the first block wraps, the
\* second is cut by the truncation to n entries.
C2_Witness ==
    /\ fn = "bootstrap_ts_indexes" /\ pc = "returned"
    /\ npoints = 3 /\ l = 2
    /\ starts = <<<<2, 1>>>>
    /\ indexes = <<<<-1, 0, 1>>>>

\* C4 as stated: a call that names a method other than 'circular' draws
\* nothing, returns nothing, and fails with an explicit unsupported-method
\* error (not with the interpreter's UnboundLocalError).
C4_Original ==
    (method # "circular" /\ pc \in {"loop", "returned", "raised"}) =>
        /\ pc # "returned"
        /\ ndraws = 0
        /\ nevals = 0
        /\ pc = "raised" => exc \in {"UnsupportedMethodError", "AssertionError"}

\* C6 as stated: with generated indices ts_boot returns exactly n_samples
\* results, result i being the statistic of the bundle gathered with row i;
\* the tuple gathered last is the bundle gathered with the last row used, and
\* identical members give identical samples.
C6_Original ==
    /\ (fn = "ts_boot" /\ indx_file = "" /\ pc = "returned") =>
          /\ Len(ret) = n_samples
          /\ \A i \in 1..n_samples : ret[i] = func(GatherMod(dlist, indexes[i]))
    /\ (fn = "ts_boot" /\ indx_file = "" /\ pc \in {"loop", "returned"} /\ ii > 0) =>
          /\ sample = GatherMod(dlist, indexes[ii])
          /\ \A m1, m2 \in DOMAIN dlist : dlist[m1] = dlist[m2] => sample[m1] = sample[m2]

\* C6, amended: the same, when the caller passes no out buffer or one of
\* exactly n_samples slots.
C6_ResultsPerRow ==
    /\ (fn = "ts_boot" /\ indx_file = "" /\ pc = "returned"
            /\ (~has_out \/ Len(out0) = n_samples)) =>
          /\ Len(ret) = n_samples
          /\ \A i \in 1..n_samples : ret[i] = func(GatherMod(dlist, indexes[i]))
    /\ (fn = "ts_boot" /\ indx_file = "" /\ pc \in {"loop", "returned"} /\ ii > 0) =>
          /\ sample = GatherMod(dlist, indexes[ii])
          /\ \A m1, m2 \in DOMAIN dlist : dlist[m1] = dlist[m2] => sample[m1] = sample[m2]

\* C6's case: two replicates returned, a row with a negative index among
\* them, the two results different.
C6_Witness ==
    /\ fn = "ts_boot" /\ indx_file = "" /\ pc = "returned" /\ ~has_out
    /\ n_samples = 2 /\ Len(ret) = 2 /\ ret[1] # ret[2]
    /\ \E c \in DOMAIN indexes[1] : indexes[1][c] < 0
    /\ sample[1] = sample[2] /\ sample[1] # sample[3]

\* C7 as stated: a failed ts_boot call delivers nothing: no value is
\* returned, a buffer the caller passed holds what it held at the call, and a
\* mismatch of the time axes is detected before any draw or evaluation.
C7_Original ==
    (fn = "ts_boot" /\ pc = "raised") =>
        /\ ret = <<>>
        /\ has_out => out = out0
        /\ exc = "AssertionError" => (ndraws = 0 /\ nevals = 0 /\ indexes = <<>>)

\* C9: while ts_boot loops, a step changes neither the bundle nor the index
\* matrix, keeps the number of slots, writes no slot but slot ii, and what it
\* writes there is the statistic of the bundle gathered with row ii.
C9_LoopFrame ==
    [][pc = "loop" =>
          /\ dlist' = dlist
          /\ indexes' = indexes
          /\ Len(out') = Len(out)
          /\ \A j \in DOMAIN out : j # ii + 1 => out'[j] = out[j]
          /\ out' # out => out'[ii + 1] = func(GatherMod(dlist, indexes[ii + 1]))]_vars

\* C9's case: two replicates done, each slot still holding its own result.
C9_Witness ==
    /\ fn = "ts_boot" /\ pc = "loop" /\ ii = 2
    /\ out[1] = func(GatherMod(dlist, indexes[1]))
    /\ out[2] = func(GatherMod(dlist, indexes[2]))
    /\ out[1] # out[2]

\* C10 as stated: with a stored index matrix and no out buffer passed,
\* ts_boot draws nothing, returns one result per stored row in row order (so
\* no None slot), and does not fail on storing a result.
C10_Original ==
    (fn = "ts_boot" /\ indx_file # "" /\ ~has_out) =>
        /\ ndraws = 0
        /\ pc = "returned" =>
              /\ Len(ret) = Len(stored)
              /\ \A i \in DOMAIN stored : ret[i] = func(GatherMod(dlist, stored[i]))
        /\ ~(pc = "raised" /\ exc = "IndexError" /\ CanGather(dlist, indexes[ii + 1]))

\* C3 as stated: every block length b_star returns lies in [1, Bmax],
\* whether round is set or not.
C3_Original ==
    (fn = "b_star" /\ pc = "returned") =>
        \A j \in DOMAIN ret :
            ret[j] # NaN /\ Half <= ret[j] /\ ret[j] <= Half * Bmax

\* The window of Kn lags that starts at 0-based lag index j is all
\* insignificant.
FullWindow(rho, kn, j) ==
    \A i \in (j + 1)..(j + kn) : i \in DOMAIN rho /\ rho[i] = "below"
\* mhat as the specification words it.
StatedMhat(rho, kn, mx) ==
    IF \E j \in 0..(mx - kn) : FullWindow(rho, kn, j)
    THEN 1 + CHOOSE j \in 0..(mx - kn) :
                /\ FullWindow(rho, kn, j)
                /\ \A j2 \in 0..(j - 1) : ~FullWindow(rho, kn, j2)
    ELSE IF \E i \in DOMAIN rho : rho[i] = "above"
    THEN CHOOSE i \in DOMAIN rho :
                /\ rho[i] = "above"
                /\ \A i2 \in (i + 1)..Len(rho) : rho[i2] # "above"
    ELSE 1

\* C8 as stated: for every pattern of lags mhat is one lag number, chosen as
\* the specification words it, and M = min(2*mhat, mmax) is one defined value
\* (its computation does not fail).
C8_Original ==
    /\ (fn = "b_star" /\ pc \in {"M", "estimate"}) =>
          /\ Len(mhat.val) = 1
          /\ mhat.val[1] = StatedMhat(rho_k, Kn, mmax)
    /\ (fn = "b_star" /\ pc = "estimate") =>
          M.val = <<Min(2 * StatedMhat(rho_k, Kn, mmax), mmax)>>
    /\ ~(fn = "b_star" /\ pc = "raised" /\ exc = "ValueError")

\* C5 as stated: at every location p_gt + p_leq = 1, the two counts summing
\* to n_reps, replicates with an undefined difference included.
C5_Original ==
    (fn = "run_boot_within_isc_diff" /\ pc = "returned") =>
        \A x \in 1..nloc :
            /\ p_gt[x].den = n_reps /\ p_ltq[x].den = n_reps
            /\ p_gt[x].num + p_ltq[x].num = n_reps

\* C11: every entry e emitted for position i of the block drawn with start s
\* has -n <= e < n and e mod n = (s + i) mod n; the block's first entry is
\* s - n exactly when n - s < l and s otherwise; and indexing a series with e,
\* a negative index counting from the end, is in bounds and reads the
\* element at (s + i) mod n.
C11_AliasedEntriesWrap ==
    HasGenerated =>
        \A r \in DOMAIN indexes : \A p \in DOMAIN indexes[r] :
            LET e == indexes[r][p]
                s == starts[r][((p - 1) \div l) + 1]
                i == (p - 1) % l
            IN  /\ -npoints <= e /\ e < npoints
                /\ e % npoints = (s + i) % npoints
                /\ e - i = IF npoints - s < l THEN s - npoints ELSE s
                /\ (e - i # s) <=> (npoints - s < l)
                /\ \A m \in DOMAIN dlist :
                      /\ InBounds(dlist[m], e)
                      /\ Item(dlist[m], e) = dlist[m][((s + i) % npoints) + 1]

\* C11's case: ts_boot has gathered with a generated row whose block wraps,
\* start 1 of a series of 2 points with l = 2: indices -1, 0 read the last
\* point, then the first.
C11_Witness ==
    /\ fn = "ts_boot" /\ indx_file = "" /\ pc = "loop" /\ ii > 0
    /\ npoints = 2 /\ l = 2
    /\ starts[ii] = <<1>>
    /\ indexes[ii] = <<-1, 0>>
    /\ sample[1] = <<2, 1>>

\* ------------------------------------------------- further properties
\* With round set, a returned block length that is a number is an integer in
\* [1, Bmax].
RoundedWithinCap ==
    (fn = "b_star" /\ pc = "returned" /\ round) =>
        \A j \in DOMAIN ret :
            ret[j] # NaN =>
                (Half <= ret[j] /\ ret[j] <= Half * Bmax /\ ret[j] % Half = 0)

\* Whenever the code's mhat is one number, it is the stated one, and so is M.
SingleMhatAsStated ==
    /\ (fn = "b_star" /\ pc \in {"M", "estimate"} /\ Len(mhat.val) = 1) =>
          mhat.val[1] = StatedMhat(rho_k, Kn, mmax)
    /\ (fn = "b_star" /\ pc = "estimate") =>
          M.val = <<Min(2 * StatedMhat(rho_k, Kn, mmax), mmax)>>

\* With no undefined difference among the replicates the p-values sum to 1.
DefinedDifferencesPartition ==
    (fn = "run_boot_within_isc_diff" /\ pc = "returned") =>
        \A x \in 1..nloc :
            (\A rep \in 1..n_reps : Minus(distA[x][rep], distB[x][rep]) # NaN) =>
                p_gt[x].num + p_ltq[x].num = n_reps

====
